---- MODULE Spec2Model ----
(***************************************************************************)
(* The session memory store of redis-stateful-app, in its two variants:    *)
(*   "redisvl" : src/backend/memory_service.py, on RedisVL MessageHistory  *)
(*               (one Redis hash per message, key                          *)
(*               chat_history:<session_tag>:<timestamp>, read back through *)
(*               the search index sorted by timestamp);                    *)
(*   "list"    : src/stateless-chat-app/backend/memory_service.py, one     *)
(*               Redis list per session, key chat:session:<id>:messages.   *)
(* Every Redis round trip is one atomic step; a MemoryService method that  *)
(* makes several round trips is several steps, and the steps of calls made *)
(* by different clients interleave. Redis time advances in Tick.           *)
(* On top of the store, the Request Router of main.py: the /chat and       *)
(* /clear-session handlers as sequences of store calls and a provider      *)
(* call (impl "redisvl" runs src/backend/main.py, impl "list" runs         *)
(* src/stateless-chat-app/backend/main.py).                                *)
(***************************************************************************)
EXTENDS Integers, Sequences, FiniteSets, TLC

VARIABLES
    impl,      \* which MemoryService variant this behaviour runs
    now,       \* the Redis server's clock
    nextId,    \* the next message: its content, and the client timestamp it gets
    lists,     \* "list" variant: session id -> [items, exp] of its list key
    hashes,    \* "redisvl" variant: the message hashes [tag, ts, role, content, exp]
    pc,        \* per client: where it stands inside a MemoryService call
    local,     \* per client: the locals of the call in progress
    ret,       \* what the last completed call returned (cleared by the next step)
    appended,  \* per session: the messages the tier accepted, in the order it saw them,
               \* since the session was last cleared or ran idle for session_ttl
    lastPush,  \* per session: {time of the last accepted push}, {} when none counts
    services,  \* main.py: which of the module-level services were initialized
    req,       \* per client: the HTTP request it has in progress
    resp,      \* the HTTP response just sent (cleared by the next step of a request)
    log        \* the successful responses to /chat requests so far, in the order sent

vars == <<impl, now, nextId, lists, hashes, pc, local, ret, appended, lastPush,
          services, req, resp, log>>

\* the state of main.py and of its clients; the MemoryService does not touch it
router == <<services, req, resp, log>>

----------------------------------------------------------------------------
(* Bounds of the model *)

\* add_message calls in one behaviour of Spec
MaxMsgs == 2
\* add_message calls in one behaviour of SpecSeq (one client, one session)
MaxSeqMsgs == 6
\* add_message calls in one behaviour of SpecStore (one client, every call)
MaxStoreMsgs == 2
\* add_message calls in one behaviour of SpecRead
MaxReadMsgs == 2
\* SpecRouter: /chat requests start while the next fresh content is at most this
MaxRouterIds == 5
\* SpecChatOk: /chat requests start while the next fresh content is at most
\* this (a request of src/backend that succeeds draws four: its message, its
\* reply and the two time stamps)
MaxChatIds == 13
\* SpecFail: /chat requests start while the next fresh content is at most this
MaxFailIds == 3
\* SpecPair: /chat requests start while the next fresh content is at most this
MaxPairIds == 2
\* SpecRace: the add_message that meets the clear_session appends this
\* content; the add_message calls before it append the smaller ones
MaxRaceIds == 3
\* add_message calls in one behaviour of SpecBoth
MaxBothMsgs == 6
\* the clock stops here
MaxTime == 2
\* the largest limit handed to get_messages
MaxLimit == 2
\* SESSION_TTL_SECONDS (default 3600), scaled to clock ticks
session_ttl == 2

\* top_k of MessageHistory.get_recent when the caller passes none
DefaultTopK == 5

Impls == {"redisvl", "list"}
Procs == {"p1", "p2"}
SeqProcs == {"p1"}
Roles == {"user", "assistant"}
\* role is a plain str: a caller can pass any string
AnyRoles == Roles \cup {"system", "llm", ""}

\* Session ids are opaque strings, modelled as sequences of characters: a plain
\* id, an id that extends it after a colon, and an id made of glob metacharacters.
Sessions == {<<"a">>, <<"a", ":", "b">>, <<"[", "a", "]">>}
SeqSessions == {<<"a">>}
StoreSessions == {<<"a">>, <<"[", "a", "]">>}
RouterSessions == {<<"a">>}

\* limit: Optional[int]; {} is None, {n} is n
Limits == {{}} \cup {{n} : n \in 0..MaxLimit}

----------------------------------------------------------------------------
(* Redis and RedisVL primitives *)

\* a key with no expiry has exp = {}; EXPIRE at time t sets exp = {t + ttl}
Expired(exp, t) == \E e \in exp : e <= t

EmptyList == [items |-> <<>>, exp |-> {}]

json_dumps(m) == <<m.role, m.content>>
json_loads(raw) == [role |-> raw[1], content |-> raw[2]]

\* LRANGE key start stop: negative indexes count from the end, out-of-range
\* indexes are clamped, the result is inclusive on both ends (0-based)
lrange(items, start, stop) ==
    LET n  == Len(items)
        s0 == IF start < 0 THEN n + start ELSE start
        e0 == IF stop < 0 THEN n + stop ELSE stop
        s1 == IF s0 < 0 THEN 0 ELSE s0
        e1 == IF e0 >= n THEN n - 1 ELSE e0
    IN  IF s1 > e1 \/ s1 >= n THEN <<>> ELSE SubSeq(items, s1 + 1, e1 + 1)

\* the key of a RedisVL message hash: {name}:{session_tag}:{timestamp}
HashKey(tag, ts) == <<"chat_history", ":">> \o tag \o <<":", ToString(ts)>>

\* f"chat_history:{session_id}:*"
KeyPattern(session_id) == <<"chat_history", ":">> \o session_id \o <<":", "*">>

\* the characters of a glob class, pattern positioned after the "["
RECURSIVE ClassChars(_)
ClassChars(pat) ==
    IF pat = <<>> \/ Head(pat) = "]" THEN {}
    ELSE {Head(pat)} \cup ClassChars(Tail(pat))

RECURSIVE AfterClass(_)
AfterClass(pat) ==
    IF pat = <<>> THEN <<>>
    ELSE IF Head(pat) = "]" THEN Tail(pat)
    ELSE AfterClass(Tail(pat))

\* Redis glob matching (KEYS pattern): * any run, ? any one character,
\* [..] one character of the class, \ the next character literally
RECURSIVE GlobMatch(_, _)
GlobMatch(pat, str) ==
    IF pat = <<>> THEN str = <<>>
    ELSE LET c == Head(pat) IN
         CASE c = "*" ->
                \E k \in 0..Len(str) :
                    GlobMatch(Tail(pat), SubSeq(str, k + 1, Len(str)))
           [] c = "?" ->
                str # <<>> /\ GlobMatch(Tail(pat), Tail(str))
           [] c = "[" ->
                /\ str # <<>>
                /\ Head(str) \in ClassChars(Tail(pat))
                /\ GlobMatch(AfterClass(Tail(pat)), Tail(str))
           [] c = "\\" /\ Len(pat) >= 2 ->
                /\ str # <<>>
                /\ Head(str) = pat[2]
                /\ GlobMatch(Tail(Tail(pat)), Tail(str))
           [] OTHER ->
                str # <<>> /\ Head(str) = c /\ GlobMatch(Tail(pat), Tail(str))

\* redis_client.keys(pattern): the hashes whose key matches, as (tag, ts) pairs
keys(pattern) ==
    {<<h.tag, h.ts>> : h \in {x \in hashes : GlobMatch(pattern, HashKey(x.tag, x.ts))}}

\* the search index's SORTBY timestamp DESC (no two messages share a stamp)
SortByTimestampDesc(S) ==
    [i \in 1..Cardinality(S) |->
        CHOOSE x \in S : Cardinality({y \in S : y.ts >= x.ts}) = i]

Reverse(seq) == [i \in 1..Len(seq) |-> seq[Len(seq) + 1 - i]]

FirstN(seq, n) == SubSeq(seq, 1, IF n < Len(seq) THEN n ELSE Len(seq))

\* MessageHistory.get_recent(top_k, session_tag): the top_k entries of the
\* session tag with the latest timestamps, returned oldest first
get_recent(top_k, session_tag) ==
    LET hits   == {h \in hashes : h.tag = session_tag}
        recent == FirstN(SortByTimestampDesc(hits), top_k)
        chron  == Reverse(recent)
    IN  [i \in 1..Len(chron) |-> [role |-> chron[i].role, content |-> chron[i].content]]

----------------------------------------------------------------------------
(* MemoryService: the pure parts *)

\* `if limit:` is false for None and for 0
Truthy(limit) == \E n \in limit : n # 0
LimitValue(limit) == CHOOSE n \in limit : TRUE

message_history_role(role) == IF role = "assistant" THEN "llm" ELSE role

\* caller_role without the mapping back: the stored role as it is
caller_role_stored(role) == role

caller_role(role) == IF role = "llm" THEN "assistant" ELSE role

get_messages_redisvl(session_id, limit) ==
    LET messages == IF Truthy(limit)
                    THEN get_recent(LimitValue(limit), session_id)
                    ELSE get_recent(DefaultTopK, session_id)
    IN  [i \in 1..Len(messages) |->
            [role |-> caller_role(messages[i].role), content |-> messages[i].content]]

\* get_messages_list reading from the head of the list instead of its tail
get_messages_list_head(session_id, limit) ==
    LET items == lists[session_id].items
        raw_messages == IF Truthy(limit)
                        THEN lrange(items, 0, LimitValue(limit) - 1)
                        ELSE lrange(items, 0, -1)
    IN  [i \in 1..Len(raw_messages) |-> json_loads(raw_messages[i])]

get_messages_list(session_id, limit) ==
    LET items == lists[session_id].items
        raw_messages == IF Truthy(limit)
                        THEN lrange(items, 0 - LimitValue(limit), -1)
                        ELSE lrange(items, 0, -1)
    IN  [i \in 1..Len(raw_messages) |-> json_loads(raw_messages[i])]

get_messages(session_id, limit) ==
    IF impl = "redisvl" THEN get_messages_redisvl(session_id, limit)
    ELSE get_messages_list(session_id, limit)

\* len(self.get_messages(session_id))
get_message_count_redisvl(session_id) == Len(get_messages_redisvl(session_id, {}))

\* llen(key)
get_message_count_list(session_id) == Len(lists[session_id].items)

get_message_count(session_id) ==
    IF impl = "redisvl" THEN get_message_count_redisvl(session_id)
    ELSE get_message_count_list(session_id)

\* len(keys(pattern)) > 0
session_exists_redisvl(session_id) == Cardinality(keys(KeyPattern(session_id))) > 0

\* exists(key) > 0
session_exists_list(session_id) == lists[session_id].items # <<>>

session_exists(session_id) ==
    IF impl = "redisvl" THEN session_exists_redisvl(session_id)
    ELSE session_exists_list(session_id)

----------------------------------------------------------------------------
(* State *)

NoCall == [sess |-> <<>>, role |-> "", content |-> 0, ts |-> 0, keys |-> {}]

\* op names the call that returned, "<call>_failed" when it raised; role is the
\* role an add_message was called with; error tells that the tier failed a
\* round trip of the call
NoRet == [op |-> "none", sess |-> <<>>, role |-> "", limit |-> {}, msgs |-> <<>>,
          count |-> 0, exists |-> FALSE, error |-> FALSE]

Returned(op, session_id) == [NoRet EXCEPT !.op = op, !.sess = session_id]

\* add_message of client p returns
ReturnedAdd(p) ==
    [Returned("add_message", local[p].sess) EXCEPT !.role = local[p].role]

\* a call raises what the tier raised
Raised(op, session_id) ==
    [Returned(op, session_id) EXCEPT !.error = TRUE]

\* main.py: the services a process got to initialize
AllServices == [stateless |-> TRUE, memory |-> TRUE, stateful |-> TRUE,
                ollama_stateless |-> TRUE, ollama_stateful |-> TRUE]

\* msg: request.message; input: what the provider is called with; reply: what
\* it answered
NoReq == [kind |-> "none", stage |-> "", mode |-> "", provider |-> "", sess |-> <<>>,
          msg |-> 0, input |-> <<>>, reply |-> 0]

\* count: message_count, {} when it is None; cause: what made the request fail
NoResp == [kind |-> "none", status |-> 0, mode |-> "", provider |-> "", sess |-> <<>>,
           msg |-> 0, input |-> <<>>, reply |-> 0, count |-> {}, cause |-> "none"]

Init ==
    /\ impl \in Impls
    /\ now = 0
    /\ nextId = 1
    /\ lists = [s \in Sessions |-> EmptyList]
    /\ hashes = {}
    /\ pc = [p \in Procs |-> "idle"]
    /\ local = [p \in Procs |-> NoCall]
    /\ ret = NoRet
    /\ appended = [s \in Sessions |-> <<>>]
    /\ lastPush = [s \in Sessions |-> {}]
    /\ services = AllServices
    /\ req = [p \in Procs |-> NoReq]
    /\ resp = NoResp
    /\ log = <<>>

\* the tier accepted a message of session s
Accept(s, role, content) ==
    /\ appended' = [appended EXCEPT ![s] = Append(@, [role |-> role, content |-> content])]
    /\ lastPush' = [lastPush EXCEPT ![s] = {now}]

\* the sessions in T were cleared
Forget(T) ==
    /\ appended' = [s \in Sessions |-> IF s \in T THEN <<>> ELSE appended[s]]
    /\ lastPush' = [s \in Sessions |-> IF s \in T THEN {} ELSE lastPush[s]]

----------------------------------------------------------------------------
(* add_message, "list" variant *)

\* rpush(key, json.dumps(message)): creates the list when it is absent, and
\* leaves the expiry of an existing list as it is
RPushContent(p, session_id, role, content) ==
    /\ impl = "list"
    /\ pc[p] = "idle"
    /\ lists' = [lists EXCEPT ![session_id].items =
                    Append(@, json_dumps([role |-> role, content |-> content]))]
    /\ pc' = [pc EXCEPT ![p] = "expire"]
    /\ local' = [local EXCEPT ![p] =
                    [NoCall EXCEPT !.sess = session_id, !.role = role, !.content = content]]
    /\ ret' = NoRet
    /\ Accept(session_id, role, content)
    /\ UNCHANGED <<impl, now, hashes>>

\* add_message with the next fresh content
RPush(p, session_id, role, cap) ==
    /\ nextId <= cap
    /\ RPushContent(p, session_id, role, nextId)
    /\ nextId' = nextId + 1

\* expire(key, session_ttl): no effect (and no error) when the key is absent
Expire(p) ==
    /\ pc[p] = "expire"
    /\ LET s == local[p].sess IN
        /\ lists' = IF lists[s].items = <<>> THEN lists
                    ELSE [lists EXCEPT ![s].exp = {now + session_ttl}]
        /\ ret' = ReturnedAdd(p)
    /\ pc' = [pc EXCEPT ![p] = "idle"]
    /\ local' = [local EXCEPT ![p] = NoCall]
    /\ UNCHANGED <<impl, now, nextId, hashes, appended, lastPush>>

----------------------------------------------------------------------------
(* add_message, "redisvl" variant *)

\* The message dict is built and handed to MessageHistory.add_message, which
\* stamps it with the client's clock: the stamp is part of the key and is the
\* sort field of every later read.
CreateChatMessageContent(p, session_id, role, content) ==
    /\ impl = "redisvl"
    /\ pc[p] = "idle"
    /\ local' = [local EXCEPT ![p] =
                    [NoCall EXCEPT !.sess = session_id, !.role = role,
                                   !.content = content, !.ts = nextId]]
    /\ nextId' = nextId + 1
    /\ pc' = [pc EXCEPT ![p] = "load"]
    /\ ret' = NoRet
    /\ UNCHANGED <<impl, now, lists, hashes, appended, lastPush>>

\* add_message with the next fresh content
CreateChatMessage(p, session_id, role, cap) ==
    /\ nextId <= cap
    /\ CreateChatMessageContent(p, session_id, role, nextId)

\* the hash is written under a key of the session alone: it replaces the
\* hash of the session's previous message
LoadReplacing(p) ==
    /\ pc[p] = "load"
    /\ LET c == local[p] IN
        /\ hashes' = {h \in hashes : h.tag # c.sess} \cup
                        {[tag |-> c.sess, ts |-> c.ts,
                          role |-> message_history_role(c.role),
                          content |-> c.content, exp |-> {}]}
        /\ Accept(c.sess, c.role, c.content)
    /\ pc' = [pc EXCEPT ![p] = "keys"]
    /\ ret' = NoRet
    /\ UNCHANGED <<impl, now, nextId, lists, local>>

\* MessageHistory writes the hash; a new hash has no expiry
Load(p) ==
    /\ pc[p] = "load"
    /\ LET c == local[p] IN
        /\ hashes' = hashes \cup
                        {[tag |-> c.sess, ts |-> c.ts,
                          role |-> message_history_role(c.role),
                          content |-> c.content, exp |-> {}]}
        /\ Accept(c.sess, c.role, c.content)
    /\ pc' = [pc EXCEPT ![p] = "keys"]
    /\ ret' = NoRet
    /\ UNCHANGED <<impl, now, nextId, lists, local>>

\* session_keys = redis_client.keys(pattern); an empty result ends the call
KeysForExpire(p) ==
    /\ pc[p] = "keys"
    /\ LET s == local[p].sess
           session_keys == keys(KeyPattern(s))
       IN  IF session_keys = {}
           THEN /\ pc' = [pc EXCEPT ![p] = "idle"]
                /\ local' = [local EXCEPT ![p] = NoCall]
                /\ ret' = ReturnedAdd(p)
           ELSE /\ pc' = [pc EXCEPT ![p] = "expire_loop"]
                /\ local' = [local EXCEPT ![p].keys = session_keys]
                /\ ret' = NoRet
    /\ UNCHANGED <<impl, now, nextId, lists, hashes, appended, lastPush>>

\* one round of `for key in session_keys: expire(key, session_ttl)`; KEYS
\* returns the keys in no particular order
ExpireKey(p) ==
    /\ pc[p] = "expire_loop"
    /\ \E k \in local[p].keys :
        /\ hashes' = {IF <<h.tag, h.ts>> = k
                      THEN [h EXCEPT !.exp = {now + session_ttl}] ELSE h : h \in hashes}
        /\ IF local[p].keys = {k}
           THEN /\ pc' = [pc EXCEPT ![p] = "idle"]
                /\ ret' = ReturnedAdd(p)
                /\ local' = [local EXCEPT ![p] = NoCall]
           ELSE /\ pc' = pc
                /\ ret' = NoRet
                /\ local' = [local EXCEPT ![p].keys = @ \ {k}]
    /\ UNCHANGED <<impl, now, nextId, lists, appended, lastPush>>

\* A Redis call made after the push raises (connection lost): the exception
\* leaves add_message, nothing is undone
Fail(p) ==
    /\ pc[p] \in {"expire", "keys", "expire_loop"}
    /\ ret' = [Raised("add_message_failed", local[p].sess) EXCEPT
                  !.role = local[p].role]
    /\ pc' = [pc EXCEPT ![p] = "idle"]
    /\ local' = [local EXCEPT ![p] = NoCall]
    /\ UNCHANGED <<impl, now, nextId, lists, hashes, appended, lastPush>>

----------------------------------------------------------------------------
(* clear_session *)

\* delete(key)
ClearSessionList(p, session_id) ==
    /\ impl = "list"
    /\ pc[p] = "idle"
    /\ lists' = [lists EXCEPT ![session_id] = EmptyList]
    /\ ret' = Returned("clear_session", session_id)
    /\ Forget({session_id})
    /\ UNCHANGED <<impl, now, nextId, hashes, pc, local>>

\* session_keys = redis_client.keys(pattern); nothing found ends the call
ClearKeys(p, session_id) ==
    /\ impl = "redisvl"
    /\ pc[p] = "idle"
    /\ LET session_keys == keys(KeyPattern(session_id)) IN
        IF session_keys = {}
        THEN /\ ret' = Returned("clear_session", session_id)
             /\ UNCHANGED <<pc, local>>
        ELSE /\ ret' = NoRet
             /\ pc' = [pc EXCEPT ![p] = "delete"]
             /\ local' = [local EXCEPT ![p] =
                            [NoCall EXCEPT !.sess = session_id, !.keys = session_keys]]
    /\ Forget({session_id})
    /\ UNCHANGED <<impl, now, nextId, lists, hashes>>

\* redis_client.delete(*session_keys)
ClearDelete(p) ==
    /\ pc[p] = "delete"
    /\ hashes' = {h \in hashes : <<h.tag, h.ts>> \notin local[p].keys}
    /\ ret' = Returned("clear_session", local[p].sess)
    /\ Forget({local[p].sess} \cup {k[1] : k \in local[p].keys})
    /\ pc' = [pc EXCEPT ![p] = "idle"]
    /\ local' = [local EXCEPT ![p] = NoCall]
    /\ UNCHANGED <<impl, now, nextId, lists>>

----------------------------------------------------------------------------
(* the read operations: one round trip each *)

\* a read that also renews the expiry of what it read
GetMessagesTouch(p, session_id, limit) ==
    /\ pc[p] = "idle"
    /\ ret' = [Returned("get_messages", session_id) EXCEPT
                  !.limit = limit, !.msgs = get_messages(session_id, limit)]
    /\ lists' = [lists EXCEPT ![session_id].exp =
                    IF lists[session_id].items = <<>> THEN @ ELSE {now + session_ttl}]
    /\ hashes' = {IF h.tag = session_id THEN [h EXCEPT !.exp = {now + session_ttl}]
                  ELSE h : h \in hashes}
    /\ UNCHANGED <<impl, now, nextId, pc, local, appended, lastPush>>

GetMessages(p, session_id, limit) ==
    /\ pc[p] = "idle"
    /\ ret' = [Returned("get_messages", session_id) EXCEPT
                  !.limit = limit, !.msgs = get_messages(session_id, limit)]
    /\ UNCHANGED <<impl, now, nextId, lists, hashes, pc, local, appended, lastPush>>

GetMessageCount(p, session_id) ==
    /\ pc[p] = "idle"
    /\ ret' = [Returned("get_message_count", session_id) EXCEPT
                  !.count = get_message_count(session_id)]
    /\ UNCHANGED <<impl, now, nextId, lists, hashes, pc, local, appended, lastPush>>

SessionExists(p, session_id) ==
    /\ pc[p] = "idle"
    /\ ret' = [Returned("session_exists", session_id) EXCEPT
                  !.exists = session_exists(session_id)]
    /\ UNCHANGED <<impl, now, nextId, lists, hashes, pc, local, appended, lastPush>>

----------------------------------------------------------------------------
(* the tier is unreachable: the first round trip of a call raises *)

\* neither variant catches what rpush / MessageHistory.add_message raises
AddMessageRaise(p, session_id, role) ==
    /\ pc[p] = "idle"
    /\ ret' = [Raised("add_message_failed", session_id) EXCEPT !.role = role]
    /\ UNCHANGED <<impl, now, nextId, lists, hashes, pc, local, appended, lastPush>>

\* "redisvl": `except Exception: return []`; "list": lrange raises
GetMessagesRaise(p, session_id, limit) ==
    /\ pc[p] = "idle"
    /\ ret' = IF impl = "redisvl"
              THEN [Raised("get_messages", session_id) EXCEPT
                        !.limit = limit, !.msgs = <<>>]
              ELSE [Raised("get_messages_failed", session_id) EXCEPT !.limit = limit]
    /\ UNCHANGED <<impl, now, nextId, lists, hashes, pc, local, appended, lastPush>>

\* "redisvl": len(self.get_messages(session_id)), which returned []; "list":
\* llen raises
GetMessageCountRaise(p, session_id) ==
    /\ pc[p] = "idle"
    /\ ret' = IF impl = "redisvl"
              THEN [Raised("get_message_count", session_id) EXCEPT !.count = 0]
              ELSE Raised("get_message_count_failed", session_id)
    /\ UNCHANGED <<impl, now, nextId, lists, hashes, pc, local, appended, lastPush>>

\* keys / exists raises
SessionExistsRaise(p, session_id) ==
    /\ pc[p] = "idle"
    /\ ret' = Raised("session_exists_failed", session_id)
    /\ UNCHANGED <<impl, now, nextId, lists, hashes, pc, local, appended, lastPush>>

\* keys / delete(key) raises
ClearSessionRaise(p, session_id) ==
    /\ pc[p] = "idle"
    /\ ret' = Raised("clear_session_failed", session_id)
    /\ UNCHANGED <<impl, now, nextId, lists, hashes, pc, local, appended, lastPush>>

\* delete(*session_keys) raises after keys answered
ClearDeleteRaise(p) ==
    /\ pc[p] = "delete"
    /\ ret' = Raised("clear_session_failed", local[p].sess)
    /\ pc' = [pc EXCEPT ![p] = "idle"]
    /\ local' = [local EXCEPT ![p] = NoCall]
    /\ UNCHANGED <<impl, now, nextId, lists, hashes, appended, lastPush>>

----------------------------------------------------------------------------
(* Redis expiry *)

\* The clock advances; Redis drops every key whose expiry has come. A session
\* that got no push for session_ttl is idle: nothing of it is promised any more.
Tick ==
    /\ now < MaxTime
    /\ now' = now + 1
    /\ lists' = [s \in Sessions |->
                    IF Expired(lists[s].exp, now + 1) THEN EmptyList ELSE lists[s]]
    /\ hashes' = {h \in hashes : ~Expired(h.exp, now + 1)}
    /\ Forget({s \in Sessions : \E t \in lastPush[s] : t + session_ttl <= now + 1})
    /\ ret' = NoRet
    /\ UNCHANGED <<impl, nextId, pc, local>>

----------------------------------------------------------------------------
(* main.py: the Request Router *)

\* the state of the MemoryService and of Redis
store == <<impl, now, nextId, lists, hashes, pc, local, ret, appended, lastPush>>

Modes == {"stateless", "stateful"}
Providers == {"chatgpt", "ollama"}

\* What the try block at import time can leave behind: the first constructor
\* that raises leaves the later services None; the Ollama pair is optional and
\* set up last (src/backend only).
ServiceStates ==
    LET S(a, b, c, d, e) == [stateless |-> a, memory |-> b, stateful |-> c,
                             ollama_stateless |-> d, ollama_stateful |-> e]
    IN  {S(FALSE, FALSE, FALSE, FALSE, FALSE), S(TRUE, FALSE, FALSE, FALSE, FALSE),
         S(TRUE, TRUE, FALSE, FALSE, FALSE), S(TRUE, TRUE, TRUE, FALSE, FALSE)}
        \cup (IF impl = "redisvl"
              THEN {S(TRUE, TRUE, TRUE, TRUE, FALSE), S(TRUE, TRUE, TRUE, TRUE, TRUE)}
              ELSE {})

\* the check looks at the ChatGPT service of the mode whatever the provider is
ServiceSelectedChatGPT(mode, provider) ==
    IF mode = "stateless" THEN services.stateless ELSE services.stateful

\* `service` of the chat handler is not None. src/backend picks it by provider
\* and mode; src/stateless-chat-app knows one provider.
ServiceSelected(mode, provider) ==
    IF impl = "redisvl"
    THEN IF mode = "stateless"
         THEN IF provider = "chatgpt" THEN services.stateless
              ELSE services.ollama_stateless
         ELSE IF provider = "chatgpt" THEN services.stateful
              ELSE services.ollama_stateful
    ELSE IF mode = "stateless" THEN services.stateless ELSE services.stateful

\* the handler logs the turns of every request, memory service or not
UsesMemoryAlways(mode) == TRUE

\* the request logs its turns to the store: src/backend in both modes when
\* memory_service is set, src/stateless-chat-app in stateful mode only
UsesMemory(mode) ==
    IF impl = "redisvl" THEN services.memory ELSE mode = "stateful"

\* the response to request r; msg and input recall what the request was sent
\* with and what its provider call was given
Response(r, status, cause) ==
    [NoResp EXCEPT !.kind = r.kind, !.status = status, !.mode = r.mode,
                   !.provider = r.provider, !.sess = r.sess, !.msg = r.msg,
                   !.input = r.input, !.cause = cause]

\* the client keeps every successful response to a /chat request
Logged ==
    log' = IF resp'.kind = "chat" /\ resp'.status = 200 THEN Append(log, resp') ELSE log

\* the handler of client p raises HTTPException(status)
Reject(p, status, cause) ==
    /\ resp' = Response(req[p], status, cause)
    /\ req' = [req EXCEPT ![p] = NoReq]

\* return ChatResponse(...). ChatResponse declares provider as a required
\* field: src/backend passes it, src/stateless-chat-app does not, so there the
\* constructor raises a validation error inside the try block: HTTP 500.
ReturnChatResponse(p, count) ==
    IF impl = "redisvl"
    THEN /\ resp' = [Response(req[p], 200, "none") EXCEPT
                        !.reply = req[p].reply, !.count = count]
         /\ req' = [req EXCEPT ![p] = NoReq]
    ELSE Reject(p, 500, "response")

Advance(p, stage) ==
    /\ req' = [req EXCEPT ![p].stage = stage]
    /\ resp' = NoResp

\* POST /chat arrives: the service is selected, and checked
Chat(p, mode, provider, session_id, cap) ==
    /\ req[p].kind = "none"
    /\ pc[p] = "idle"
    /\ nextId <= cap
    /\ nextId' = nextId + 1
    /\ LET r == [NoReq EXCEPT !.kind = "chat", !.mode = mode, !.provider = provider,
                              !.sess = session_id, !.msg = nextId,
                              !.stage = IF UsesMemory(mode) THEN "add_user"
                                        ELSE "provider"]
       IN  IF ~ServiceSelected(mode, provider)
              \/ (mode = "stateful" /\ ~services.memory)
           THEN /\ resp' = Response(r, 503, "service")
                /\ req' = req
           ELSE /\ req' = [req EXCEPT ![p] = r]
                /\ resp' = NoResp
    /\ Logged
    /\ UNCHANGED <<impl, now, lists, hashes, pc, local, ret, appended, lastPush, services>>

\* What follows a call of the store inside the chat handler. Whatever a call
\* raises ends in `except Exception` of the handler (a stateful service's
\* get_response re-raises it as a plain Exception first): HTTP 500.
AfterAdd(p) ==
    IF pc'[p] # "idle" THEN req' = req /\ resp' = NoResp
    ELSE IF ret'.op # "add_message" THEN Reject(p, 500, "store")
    ELSE IF req[p].stage \in {"add_user", "adding_user"}
         THEN Advance(p, IF req[p].mode = "stateful" THEN "history" ELSE "provider")
         ELSE Advance(p, "count")

\* the user append of the handler is made under the role assistant
ChatAddUserAsAssistant(p) ==
    /\ req[p].kind = "chat"
    /\ req[p].stage = "add_user"
    /\ \/ RPushContent(p, req[p].sess, "assistant", req[p].msg) /\ UNCHANGED nextId
       \/ CreateChatMessageContent(p, req[p].sess, "assistant", req[p].msg)
       \/ AddMessageRaise(p, req[p].sess, "assistant")
    /\ IF pc'[p] = "idle" THEN Reject(p, 500, "store")
       ELSE Advance(p, "adding_user")
    /\ Logged
    /\ UNCHANGED services

\* add_message(session_id, "user", request.message): its first round trip
ChatAddUser(p) ==
    /\ req[p].kind = "chat"
    /\ req[p].stage = "add_user"
    /\ \/ RPushContent(p, req[p].sess, "user", req[p].msg) /\ UNCHANGED nextId
       \/ CreateChatMessageContent(p, req[p].sess, "user", req[p].msg)
       \/ AddMessageRaise(p, req[p].sess, "user")
    /\ IF pc'[p] = "idle" THEN Reject(p, 500, "store")
       ELSE Advance(p, "adding_user")
    /\ Logged
    /\ UNCHANGED services

\* the later round trips of the add_message in progress
ChatAddStep(p) ==
    /\ req[p].kind = "chat"
    /\ req[p].stage \in {"adding_user", "adding_assistant"}
    /\ \/ Expire(p)
       \/ Load(p)
       \/ KeysForExpire(p)
       \/ ExpireKey(p)
       \/ Fail(p)
    /\ AfterAdd(p)
    /\ Logged
    /\ UNCHANGED services

\* stateful get_response: messages = self.memory.get_messages(session_id)
ChatHistory(p) ==
    /\ req[p].kind = "chat"
    /\ req[p].stage = "history"
    /\ \/ GetMessages(p, req[p].sess, {})
       \/ GetMessagesRaise(p, req[p].sess, {})
    /\ IF ret'.op = "get_messages"
       THEN /\ req' = [req EXCEPT ![p].stage = "provider", ![p].input = ret'.msgs]
            /\ resp' = NoResp
       ELSE Reject(p, 500, "store")
    /\ Logged
    /\ UNCHANGED services

\* what the handler of client p hands to the provider with stored messages
\* in stateless mode too
ProviderInputStored(p) ==
    get_messages(req[p].sess, {})
        \o (IF req[p].mode = "stateful" THEN <<>>
            ELSE <<[role |-> "user", content |-> req[p].msg]>>)

\* what the handler of client p hands to the provider: the history it read
\* in stateful mode, request.message alone in stateless mode
ProviderInput(p) ==
    IF req[p].mode = "stateful" THEN req[p].input
    ELSE <<[role |-> "user", content |-> req[p].msg]>>

\* the provider is called. It answers or raises.
ChatProvider(p, ok) ==
    /\ req[p].kind = "chat"
    /\ req[p].stage = "provider"
    /\ nextId' = IF ok THEN nextId + 1 ELSE nextId
    /\ LET called == [req[p] EXCEPT !.input = ProviderInput(p),
                                    !.reply = IF ok THEN nextId ELSE 0]
       IN  IF ok /\ UsesMemory(req[p].mode)
           THEN /\ req' = [req EXCEPT ![p] = [called EXCEPT !.stage = "add_assistant"]]
                /\ resp' = NoResp
           ELSE /\ req' = [req EXCEPT ![p] = NoReq]
                /\ resp' = IF ~ok THEN Response(called, 500, "provider")
                           ELSE IF impl = "redisvl"
                                THEN [Response(called, 200, "none") EXCEPT
                                            !.reply = called.reply]
                                ELSE Response(called, 500, "response")
    /\ Logged
    /\ UNCHANGED <<impl, now, lists, hashes, pc, local, ret, appended, lastPush, services>>

\* the handler appends the request's message under the role assistant
ChatAddAssistantEcho(p) ==
    /\ req[p].kind = "chat"
    /\ req[p].stage = "add_assistant"
    /\ \/ RPushContent(p, req[p].sess, "assistant", req[p].msg) /\ UNCHANGED nextId
       \/ CreateChatMessageContent(p, req[p].sess, "assistant", req[p].msg)
       \/ AddMessageRaise(p, req[p].sess, "assistant")
    /\ IF pc'[p] = "idle" THEN Reject(p, 500, "store")
       ELSE Advance(p, "adding_assistant")
    /\ Logged
    /\ UNCHANGED services

\* add_message(session_id, "assistant", response): its first round trip
ChatAddAssistant(p) ==
    /\ req[p].kind = "chat"
    /\ req[p].stage = "add_assistant"
    /\ \/ RPushContent(p, req[p].sess, "assistant", req[p].reply) /\ UNCHANGED nextId
       \/ CreateChatMessageContent(p, req[p].sess, "assistant", req[p].reply)
       \/ AddMessageRaise(p, req[p].sess, "assistant")
    /\ IF pc'[p] = "idle" THEN Reject(p, 500, "store")
       ELSE Advance(p, "adding_assistant")
    /\ Logged
    /\ UNCHANGED services

\* message_count = get_message_count(session_id), and the response
ChatCount(p) ==
    /\ req[p].kind = "chat"
    /\ req[p].stage = "count"
    /\ \/ GetMessageCount(p, req[p].sess)
       \/ GetMessageCountRaise(p, req[p].sess)
    /\ IF ret'.op = "get_message_count"
       THEN ReturnChatResponse(p, {ret'.count})
       ELSE Reject(p, 500, "store")
    /\ Logged
    /\ UNCHANGED services

\* POST /clear-session arrives: 503 without a memory service, else
\* clear_session's first round trip
ClearSession(p, session_id) ==
    /\ req[p].kind = "none"
    /\ pc[p] = "idle"
    /\ LET r == [NoReq EXCEPT !.kind = "clear", !.sess = session_id, !.stage = "delete"]
       IN  \/ /\ ~services.memory
              /\ resp' = Response(r, 503, "service")
              /\ req' = req
              /\ UNCHANGED store
           \/ /\ services.memory
              /\ \/ ClearSessionList(p, session_id)
                 \/ ClearKeys(p, session_id)
                 \/ ClearSessionRaise(p, session_id)
              /\ IF pc'[p] # "idle"
                 THEN req' = [req EXCEPT ![p] = r] /\ resp' = NoResp
                 ELSE /\ resp' = IF ret'.op = "clear_session"
                                 THEN Response(r, 200, "none")
                                 ELSE Response(r, 500, "store")
                      /\ req' = req
    /\ Logged
    /\ UNCHANGED services

\* redis_client.delete(*session_keys), and the response
ClearSessionDelete(p) ==
    /\ req[p].kind = "clear"
    /\ req[p].stage = "delete"
    /\ \/ ClearDelete(p)
       \/ ClearDeleteRaise(p)
    /\ IF ret'.op = "clear_session" THEN Reject(p, 200, "none")
       ELSE Reject(p, 500, "store")
    /\ Logged
    /\ UNCHANGED services

----------------------------------------------------------------------------
(* Specifications *)

\* Two clients writing to three sessions while the clock runs. The reads change
\* nothing of the store (they are actions of SpecSeq), so the reachable stores
\* are those of the writes.
Next ==
    \/ \E p \in Procs, s \in Sessions, r \in Roles : RPush(p, s, r, MaxMsgs) /\ UNCHANGED router
    \/ \E p \in Procs : Expire(p) /\ UNCHANGED router
    \/ \E p \in Procs, s \in Sessions, r \in Roles : CreateChatMessage(p, s, r, MaxMsgs) /\ UNCHANGED router
    \/ \E p \in Procs : Load(p) /\ UNCHANGED router
    \/ \E p \in Procs : KeysForExpire(p) /\ UNCHANGED router
    \/ \E p \in Procs : ExpireKey(p) /\ UNCHANGED router
    \/ \E p \in Procs : Fail(p) /\ UNCHANGED router
    \/ \E p \in Procs, s \in Sessions : ClearSessionList(p, s) /\ UNCHANGED router
    \/ \E p \in Procs, s \in Sessions : ClearKeys(p, s) /\ UNCHANGED router
    \/ \E p \in Procs : ClearDelete(p) /\ UNCHANGED router
    \/ Tick /\ UNCHANGED router

Spec == Init /\ [][Next]_vars

\* One client appending to one session and reading it between its appends:
\* no clear, no expiry, no failure.
NextSeq ==
    \/ \E p \in SeqProcs, s \in SeqSessions, r \in Roles : RPush(p, s, r, MaxSeqMsgs) /\ UNCHANGED router
    \/ \E p \in SeqProcs : Expire(p) /\ UNCHANGED router
    \/ \E p \in SeqProcs, s \in SeqSessions, r \in Roles :
            CreateChatMessage(p, s, r, MaxSeqMsgs) /\ UNCHANGED router
    \/ \E p \in SeqProcs : Load(p) /\ UNCHANGED router
    \/ \E p \in SeqProcs : KeysForExpire(p) /\ UNCHANGED router
    \/ \E p \in SeqProcs : ExpireKey(p) /\ UNCHANGED router
    \/ \E p \in SeqProcs, s \in SeqSessions, l \in Limits : GetMessages(p, s, l) /\ UNCHANGED router
    \/ \E p \in SeqProcs, s \in SeqSessions : GetMessageCount(p, s) /\ UNCHANGED router
    \/ \E p \in SeqProcs, s \in SeqSessions : SessionExists(p, s) /\ UNCHANGED router

SpecSeq == Init /\ [][NextSeq]_vars

\* a step of a request that succeeds: no store call fails, and a response
\* sent is a 200
Succeeds ==
    /\ ~ret'.error
    /\ resp'.status \in {0, 200}

\* Two clients with requests on one session at the same time, every step of
\* one interleaved with the steps of the other; all requests succeed and go
\* to one provider. Every service is initialized (Init); nothing is cleared,
\* no time passes.
NextPair ==
    \/ \E p \in Procs, m \in Modes, s \in RouterSessions :
            Chat(p, m, "chatgpt", s, MaxPairIds)
    \/ \E p \in Procs : ChatAddUser(p) /\ Succeeds
    \/ \E p \in Procs : ChatAddStep(p) /\ Succeeds
    \/ \E p \in Procs : ChatHistory(p) /\ Succeeds
    \/ \E p \in Procs : ChatProvider(p, TRUE) /\ Succeeds
    \/ \E p \in Procs : ChatAddAssistant(p) /\ Succeeds
    \/ \E p \in Procs : ChatCount(p) /\ Succeeds

SpecPair == Init /\ [][NextPair]_vars

\* Client p1 appends MaxRaceIds - 1 messages one call after the other, then
\* makes one more add_message call; client p2 sends one /clear-session, at
\* any time from the end of the earlier calls on, so that every step of the
\* clear interleaves with every step of that last add_message. No call fails,
\* no time passes.
RaceAdd(s, r) ==
    /\ nextId < MaxRaceIds => (req["p2"].kind = "none" /\ resp.kind = "none")
    /\ \/ RPush("p1", s, r, MaxRaceIds)
       \/ CreateChatMessage("p1", s, r, MaxRaceIds)
    /\ UNCHANGED router

RaceClear(s) ==
    /\ resp.kind = "none"
    /\ nextId >= MaxRaceIds
    /\ pc["p1"] # "idle" => local["p1"].content = MaxRaceIds
    /\ ClearSession("p2", s)
    /\ ~ret'.error

NextRace ==
    \/ \E s \in StoreSessions, r \in Roles : RaceAdd(s, r)
    \/ Expire("p1") /\ UNCHANGED router
    \/ Load("p1") /\ UNCHANGED router
    \/ KeysForExpire("p1") /\ UNCHANGED router
    \/ ExpireKey("p1") /\ UNCHANGED router
    \/ \E s \in StoreSessions : RaceClear(s)
    \/ ClearSessionDelete("p2") /\ ~ret'.error

SpecRace == Init /\ [][NextRace]_vars

\* The two MemoryService implementations side by side: one client makes each
\* call on both, one call after the other, the list variant working on
\* `lists` and the RedisVL variant on `hashes`; the round trips of a call
\* follow each other with no time passing inside the call and none fails, the
\* clock runs between the calls. Messages go to session a; every session of
\* StoreSessions is cleared and read.
AddMessageBoth(s, role) ==
    /\ nextId <= MaxBothMsgs
    /\ nextId' = nextId + 1
    /\ lists' = [lists EXCEPT ![s] =
                    [items |-> Append(@.items,
                                      json_dumps([role |-> role, content |-> nextId])),
                     exp |-> {now + session_ttl}]]
    /\ LET all == hashes \cup {[tag |-> s, ts |-> nextId,
                                role |-> message_history_role(role),
                                content |-> nextId, exp |-> {}]}
       IN  hashes' = {IF GlobMatch(KeyPattern(s), HashKey(h.tag, h.ts))
                      THEN [h EXCEPT !.exp = {now + session_ttl}]
                      ELSE h : h \in all}
    /\ Accept(s, role, nextId)
    /\ ret' = [Returned("add_message", s) EXCEPT !.role = role]
    /\ UNCHANGED <<impl, now, pc, local>>

ClearSessionBoth(s) ==
    /\ lists' = [lists EXCEPT ![s] = EmptyList]
    /\ hashes' = {h \in hashes : <<h.tag, h.ts>> \notin keys(KeyPattern(s))}
    /\ Forget({s})
    /\ ret' = Returned("clear_session", s)
    /\ UNCHANGED <<impl, now, nextId, pc, local>>

NextBoth ==
    \/ \E s \in SeqSessions, r \in Roles : AddMessageBoth(s, r) /\ UNCHANGED router
    \/ \E s \in StoreSessions : ClearSessionBoth(s) /\ UNCHANGED router
    \/ Tick /\ UNCHANGED router

SpecBoth == Init /\ [][NextBoth]_vars

\* Sequential requests of one client on two sessions; the provider answers or
\* raises, the store does not fail, the clock runs. Every service is
\* initialized (Init).
NextFail ==
    \/ \E p \in SeqProcs, m \in Modes, v \in Providers, s \in StoreSessions :
            Chat(p, m, v, s, MaxFailIds)
    \/ \E p \in SeqProcs : ChatAddUser(p) /\ ~ret'.error
    \/ \E p \in SeqProcs : ChatAddStep(p) /\ ~ret'.error
    \/ \E p \in SeqProcs : ChatHistory(p) /\ ~ret'.error
    \/ \E p \in SeqProcs, ok \in BOOLEAN : ChatProvider(p, ok)
    \/ \E p \in SeqProcs : ChatAddAssistant(p) /\ ~ret'.error
    \/ \E p \in SeqProcs : ChatCount(p) /\ ~ret'.error
    \/ Tick /\ UNCHANGED router

SpecFail == Init /\ [][NextFail]_vars

\* One client appending to one session and reading it, the reads failing or
\* not, while the clock runs.
NextRead ==
    \/ \E p \in SeqProcs, s \in SeqSessions, r \in Roles :
            RPush(p, s, r, MaxReadMsgs) /\ UNCHANGED router
    \/ \E p \in SeqProcs : Expire(p) /\ UNCHANGED router
    \/ \E p \in SeqProcs, s \in SeqSessions, r \in Roles :
            CreateChatMessage(p, s, r, MaxReadMsgs) /\ UNCHANGED router
    \/ \E p \in SeqProcs : Load(p) /\ UNCHANGED router
    \/ \E p \in SeqProcs : KeysForExpire(p) /\ UNCHANGED router
    \/ \E p \in SeqProcs : ExpireKey(p) /\ UNCHANGED router
    \/ \E p \in SeqProcs, s \in SeqSessions, l \in Limits :
            GetMessages(p, s, l) /\ UNCHANGED router
    \/ \E p \in SeqProcs, s \in SeqSessions, l \in Limits :
            GetMessagesRaise(p, s, l) /\ UNCHANGED router
    \/ \E p \in SeqProcs, s \in SeqSessions : GetMessageCount(p, s) /\ UNCHANGED router
    \/ \E p \in SeqProcs, s \in SeqSessions : GetMessageCountRaise(p, s) /\ UNCHANGED router
    \/ \E p \in SeqProcs, s \in SeqSessions : SessionExists(p, s) /\ UNCHANGED router
    \/ \E p \in SeqProcs, s \in SeqSessions : SessionExistsRaise(p, s) /\ UNCHANGED router
    \/ Tick /\ UNCHANGED router

SpecRead == Init /\ [][NextRead]_vars

\* One client making every call of the MemoryService, one call at a time, on
\* two sessions, with any role string, while the clock runs and the tier may
\* fail any round trip.
NextStore ==
    \/ \E p \in SeqProcs, s \in StoreSessions, r \in AnyRoles : RPush(p, s, r, MaxStoreMsgs) /\ UNCHANGED router
    \/ \E p \in SeqProcs : Expire(p) /\ UNCHANGED router
    \/ \E p \in SeqProcs, s \in StoreSessions, r \in AnyRoles :
            CreateChatMessage(p, s, r, MaxStoreMsgs) /\ UNCHANGED router
    \/ \E p \in SeqProcs : Load(p) /\ UNCHANGED router
    \/ \E p \in SeqProcs : KeysForExpire(p) /\ UNCHANGED router
    \/ \E p \in SeqProcs : ExpireKey(p) /\ UNCHANGED router
    \/ \E p \in SeqProcs : Fail(p) /\ UNCHANGED router
    \/ \E p \in SeqProcs, s \in StoreSessions : ClearSessionList(p, s) /\ UNCHANGED router
    \/ \E p \in SeqProcs, s \in StoreSessions : ClearKeys(p, s) /\ UNCHANGED router
    \/ \E p \in SeqProcs : ClearDelete(p) /\ UNCHANGED router
    \/ \E p \in SeqProcs, s \in StoreSessions, l \in Limits : GetMessages(p, s, l) /\ UNCHANGED router
    \/ \E p \in SeqProcs, s \in StoreSessions : GetMessageCount(p, s) /\ UNCHANGED router
    \/ \E p \in SeqProcs, s \in StoreSessions : SessionExists(p, s) /\ UNCHANGED router
    \/ \E p \in SeqProcs, s \in StoreSessions, r \in AnyRoles : AddMessageRaise(p, s, r) /\ UNCHANGED router
    \/ \E p \in SeqProcs, s \in StoreSessions, l \in Limits : GetMessagesRaise(p, s, l) /\ UNCHANGED router
    \/ \E p \in SeqProcs, s \in StoreSessions : GetMessageCountRaise(p, s) /\ UNCHANGED router
    \/ \E p \in SeqProcs, s \in StoreSessions : SessionExistsRaise(p, s) /\ UNCHANGED router
    \/ \E p \in SeqProcs, s \in StoreSessions : ClearSessionRaise(p, s) /\ UNCHANGED router
    \/ \E p \in SeqProcs : ClearDeleteRaise(p) /\ UNCHANGED router
    \/ Tick /\ UNCHANGED router

SpecStore == Init /\ [][NextStore]_vars

\* main.py after start-up, whatever its services came to: one client sending
\* /chat and /clear-session requests one after the other, each request a
\* sequence of store calls and a provider call, any of which may fail.
InitRouter ==
    /\ impl \in Impls
    /\ now = 0
    /\ nextId = 1
    /\ lists = [s \in Sessions |-> EmptyList]
    /\ hashes = {}
    /\ pc = [p \in Procs |-> "idle"]
    /\ local = [p \in Procs |-> NoCall]
    /\ ret = NoRet
    /\ appended = [s \in Sessions |-> <<>>]
    /\ lastPush = [s \in Sessions |-> {}]
    /\ services \in ServiceStates
    /\ req = [p \in Procs |-> NoReq]
    /\ resp = NoResp
    /\ log = <<>>

NextRouter ==
    \/ \E p \in SeqProcs, m \in Modes, v \in Providers, s \in RouterSessions :
            Chat(p, m, v, s, MaxRouterIds)
    \/ \E p \in SeqProcs : ChatAddUser(p)
    \/ \E p \in SeqProcs : ChatAddStep(p)
    \/ \E p \in SeqProcs : ChatHistory(p)
    \/ \E p \in SeqProcs, ok \in BOOLEAN : ChatProvider(p, ok)
    \/ \E p \in SeqProcs : ChatAddAssistant(p)
    \/ \E p \in SeqProcs : ChatCount(p)
    \/ \E p \in SeqProcs, s \in RouterSessions : ClearSession(p, s)
    \/ \E p \in SeqProcs : ClearSessionDelete(p)

SpecRouter == InitRouter /\ [][NextRouter]_vars

\* Sequential requests of one client on one session that all succeed.
\* Every service is initialized (Init); nothing is cleared, no time passes.
NextChatOk ==
    \/ \E p \in SeqProcs, m \in Modes, v \in Providers, s \in RouterSessions :
            Chat(p, m, v, s, MaxChatIds)
    \/ \E p \in SeqProcs : ChatAddUser(p) /\ Succeeds
    \/ \E p \in SeqProcs : ChatAddStep(p) /\ Succeeds
    \/ \E p \in SeqProcs : ChatHistory(p) /\ Succeeds
    \/ \E p \in SeqProcs : ChatProvider(p, TRUE) /\ Succeeds
    \/ \E p \in SeqProcs : ChatAddAssistant(p) /\ Succeeds
    \/ \E p \in SeqProcs : ChatCount(p) /\ Succeeds

SpecChatOk == Init /\ [][NextChatOk]_vars

----------------------------------------------------------------------------
(* Vocabulary of the properties *)

SortByTimestampAsc(S) ==
    [i \in 1..Cardinality(S) |->
        CHOOSE x \in S : Cardinality({y \in S : y.ts <= x.ts}) = i]

\* everything the tier holds for session s, oldest first, in the caller's roles
Stored(s) ==
    IF impl = "redisvl"
    THEN LET all == SortByTimestampAsc({h \in hashes : h.tag = s})
         IN  [i \in 1..Len(all) |->
                [role |-> caller_role(all[i].role), content |-> all[i].content]]
    ELSE [i \in 1..Len(lists[s].items) |-> json_loads(lists[s].items[i])]

\* the expiries of the keys that hold session s
Expiries(s) ==
    IF impl = "redisvl" THEN {h.exp : h \in {x \in hashes : x.tag = s}}
    ELSE IF lists[s].items = <<>> THEN {} ELSE {lists[s].exp}

\* the keys of session s with what they hold and when they expire
SessionData(s) ==
    IF impl = "redisvl" THEN {h \in hashes : h.tag = s} ELSE lists[s]

IsPrefix(a, b) == Len(a) <= Len(b) /\ SubSeq(b, 1, Len(a)) = a

LastN(seq, n) == SubSeq(seq, (IF n < Len(seq) THEN Len(seq) - n ELSE 0) + 1, Len(seq))

Range(seq) == {seq[i] : i \in 1..Len(seq)}

\* client p is inside add_message, after its push
Pushed(p) == pc[p] \in {"expire", "keys", "expire_loop"}

\* this step is a step of an add_message call on session s
AddStepOn(s) ==
    \E p \in Procs :
        /\ pc'[p] # pc[p] \/ local'[p] # local[p]
        /\ \/ pc[p] \in {"load", "keys", "expire_loop", "expire"} /\ local[p].sess = s
           \/ pc'[p] \in {"load", "expire"} /\ local'[p].sess = s

----------------------------------------------------------------------------
(* Properties *)

\* C1: N appends to a session with no clear and no expiry in between: an
\* unlimited get_messages returns exactly these N messages, oldest first.
C1_AppendOrder ==
    (ret.op = "get_messages" /\ ret.limit = {}) => ret.msgs = appended[ret.sess]

\* C2: get_message_count(s) is the length of the unlimited get_messages(s),
\* and so the number of messages appended to s since its last clear or expiry.
C2_CountConsistency ==
    ret.op = "get_message_count" =>
        /\ ret.count = Len(get_messages(ret.sess, {}))
        /\ ret.count = Len(appended[ret.sess])

\* C3: get_messages(s, limit = N), N >= 1, on a session holding m1..mn returns
\* the last min(N, n) of them, oldest of the returned ones first.
C3_LimitSemantics ==
    (ret.op = "get_messages" /\ Truthy(ret.limit)) =>
        /\ ret.msgs = LastN(appended[ret.sess], LimitValue(ret.limit))
        /\ ret.msgs = LastN(Stored(ret.sess), LimitValue(ret.limit))

\* a limited read of a session that holds more messages than the limit, and
\* more than one of them is returned
C3_Witness ==
    /\ ret.op = "get_messages"
    /\ ret.limit = {2}
    /\ Len(appended[ret.sess]) >= 4
    /\ Len(ret.msgs) = 2
    /\ ret.msgs[1].content + 1 = ret.msgs[2].content

\* C4: a successful add_message(s) at time t leaves the whole session s
\* expiring at t + session_ttl.
C4_TTLRefresh ==
    ret.op = "add_message" => Expiries(ret.sess) = {{now + session_ttl}}

\* C5: while the gaps between the appends to s stay below session_ttl and s is
\* not cleared, no appended message of s is lost.
C5_NoLossWhileActive ==
    \A s \in Sessions : Range(appended[s]) \subseteq Range(Stored(s))

\* C6: once the add_message that wrote them has returned or failed, stored
\* messages always carry an expiry.
C6_NoMessageWithoutExpiry ==
    /\ \A h \in hashes :
            h.exp = {} => \E p \in Procs : Pushed(p) /\ local[p].ts = h.ts
    /\ \A s \in Sessions :
            (lists[s].items # <<>> /\ lists[s].exp = {}) =>
                \E p \in Procs : Pushed(p) /\ local[p].sess = s

\* C7: every message the tier accepts becomes the last of its session's
\* transcript, whatever other appends are in progress: none is lost, and the
\* messages stored before keep their positions.
C7_NoLostUpdates ==
    [][\A p \in Procs, s \in Sessions :
          (/\ pc[p] \in {"idle", "load"}
           /\ pc'[p] \in {"expire", "keys"}
           /\ local'[p].sess = s) =>
              Stored(s)' = Append(Stored(s), [role |-> local'[p].role,
                                              content |-> local'[p].content])]_vars

\* C8: clear_session(s) leaves the messages and expiries of every other
\* session as they were.
C8_ClearFrame ==
    [][\A s \in Sessions :
          (ret'.op = "clear_session" /\ ret'.sess = s) =>
              \A t \in Sessions \ {s} : SessionData(t)' = SessionData(t)]_vars

\* C9: no step of add_message(s) changes the messages or the expiries of
\* another session.
C9_AddFrame ==
    [][\A s \in Sessions :
          AddStepOn(s) => \A t \in Sessions \ {s} : SessionData(t)' = SessionData(t)]_vars

\* C10: with no clear and no expiry, the transcript of a session in an earlier
\* state is a prefix of its transcript in every later state, as stored and as
\* returned by get_messages; a read changes nothing of the store.
C10_Immutable ==
    [][/\ \A s \in SeqSessions :
            /\ IsPrefix(Stored(s), Stored(s)')
            /\ IsPrefix(get_messages(s, {}), get_messages(s, {})')
       /\ ret'.op \in {"get_messages", "get_message_count", "session_exists"} =>
            UNCHANGED <<lists, hashes>>]_vars

\* C11: the transcript a reader sees only ever shrinks to empty: a step that
\* makes get_messages(s) shorter makes it empty, by clear_session as by expiry.
C11_ShrinkToEmpty ==
    [][\A s \in Sessions :
          Len(get_messages(s, {})') < Len(get_messages(s, {})) =>
              get_messages(s, {})' = <<>>]_vars

\* C12: add_message with a role other than "user" and "assistant" fails: it
\* never returns normally, and the tier never accepts a message from it.
C12_InvalidRole ==
    /\ ret.op = "add_message" => ret.role \in Roles
    /\ \A s \in Sessions :
            \A i \in 1..Len(appended[s]) : appended[s][i].role \in Roles

\* C13: when clear_session(s) has returned, session_exists(s) is false and
\* get_message_count(s) is 0, whatever s held before; a second clear_session(s)
\* right after the first changes nothing of the store.
C13_IdempotentClear ==
    [][/\ ret.op = "clear_session" =>
            /\ ~session_exists(ret.sess)
            /\ get_message_count(ret.sess) = 0
       /\ (ret.op = "clear_session" /\ ret'.op = "clear_session"
                                    /\ ret'.sess = ret.sess) =>
            UNCHANGED <<lists, hashes>>]_vars

\* C14: with the tier reachable, get_messages(s), limited or not, on a session
\* never appended to, cleared or expired returns the empty sequence.
C14_EmptyRead ==
    (ret.op = "get_messages" /\ ~ret.error /\ appended[ret.sess] = <<>>) =>
        ret.msgs = <<>>

\* C15: in every state session_exists(s) is get_message_count(s) >= 1, for
\* every session s.
C15_ExistsIffCount ==
    \A s \in Sessions : session_exists(s) <=> get_message_count(s) >= 1

\* C16: every message get_messages returns has the role "user" or "assistant".
C16_CallerRoles ==
    ret.op = "get_messages" =>
        \A i \in 1..Len(ret.msgs) : ret.msgs[i].role \in Roles

\* C17: a message appended with a role of Roles comes back from get_messages
\* with exactly the role and the content it was appended with: every returned
\* message is an appended one, and the last appended is the last returned.
C17_RoundTrip ==
    ret.op = "get_messages" =>
        LET app == appended[ret.sess] IN
        /\ \A i \in 1..Len(ret.msgs) : \E j \in 1..Len(app) : app[j] = ret.msgs[i]
        /\ app # <<>> =>
                /\ ret.msgs # <<>>
                /\ ret.msgs[Len(ret.msgs)] = app[Len(app)]

\* a read returns a user and an assistant message, the assistant message being
\* stored under the role "llm"
C17_Witness ==
    /\ ret.op = "get_messages"
    /\ impl = "redisvl"
    /\ \E i, j \in 1..Len(ret.msgs) :
            /\ ret.msgs[i].role = "assistant"
            /\ ret.msgs[j].role = "user"
            /\ \E h \in hashes : h.content = ret.msgs[i].content /\ h.role = "llm"

\* C18: a call during which the tier failed reports the failure: it does not
\* return normally.
C18_ErrorsSurfaced ==
    ret.error => ret.op \in {"add_message_failed", "get_messages_failed",
                             "clear_session_failed", "get_message_count_failed",
                             "session_exists_failed"}

\* C19: POST /chat answers 503 when the request fails because the store is
\* unavailable (a service that was never initialized, a store call that fails),
\* 500 for every other failure, and 200 when nothing fails.
C19_ChatStatus ==
    resp.kind = "chat" =>
        resp.status = CASE resp.cause = "none" -> 200
                        [] resp.cause \in {"service", "store"} -> 503
                        [] OTHER -> 500

\* C20: POST /clear-session answers 503 when the store is unreachable (no
\* memory service, or clear_session failing against the tier) and 200 in
\* every other case.
C20_ClearStatus ==
    resp.kind = "clear" =>
        resp.status = IF resp.cause \in {"service", "store"} THEN 503 ELSE 200

----------------------------------------------------------------------------
(* Claims about the chat handler's steps *)

\* the field of `services` that holds the service a request is served by
ServiceOf(mode, provider) ==
    IF impl = "redisvl" /\ provider = "ollama"
    THEN IF mode = "stateless" THEN "ollama_stateless" ELSE "ollama_stateful"
    ELSE mode

\* request r cannot be served: its provider service, or in stateful mode the
\* memory service, was not initialized
Unserved(r) ==
    \/ ~services[ServiceOf(r.mode, r.provider)]
    \/ (r.mode = "stateful" /\ ~services.memory)

\* C21: a /chat request whose provider service, or in stateful mode whose
\* memory service, was not initialized never gets past the check (no request
\* in progress is one), and the step that answers a /chat request with 503
\* appends no message to any session, starts no store call and leaves every
\* request in progress, provider calls included, where it was.
C21_RejectedBeforeEffects ==
    [][/\ \A p \in Procs : req'[p].kind = "chat" => ~Unserved(req'[p])
       /\ (resp'.kind = "chat" /\ Unserved(resp')) =>
                /\ resp'.status = 503
                /\ resp'.reply = 0
                /\ UNCHANGED <<lists, hashes, appended, pc, req>>]_vars

\* an Ollama request in stateless mode is rejected while the ChatGPT service
\* of that mode is there, and a session holds messages that stay
C21_Witness ==
    /\ resp.kind = "chat"
    /\ resp.status = 503
    /\ resp.provider = "ollama"
    /\ services.stateless
    /\ ~services.ollama_stateless
    /\ \E s \in Sessions : Stored(s) # <<>>

\* the transcript the successful requests of log make on session s: the user
\* turn and the assistant turn of each, in request order
Turns(s) ==
    LET l == SelectSeq(log, LAMBDA e : e.sess = s)
    IN  [i \in 1..(2 * Len(l)) |->
            IF i % 2 = 1
            THEN [role |-> "user", content |-> l[(i + 1) \div 2].msg]
            ELSE [role |-> "assistant", content |-> l[i \div 2].reply]]

\* no request is in progress
Quiet == \A p \in Procs : req[p].kind = "none"

\* C22: after successful sequential /chat requests in any mix of modes the
\* stored transcript of the session is the user turn and the assistant turn of
\* each request, in request order, and the provider of a stateful request is
\* handed the turns of all earlier requests, stateless ones included, before
\* the request's own message.
C22_SeamlessToggle ==
    /\ Quiet => \A s \in Sessions : Stored(s) = Turns(s)
    /\ \A p \in Procs :
            (req[p].mode = "stateful" /\ req[p].stage = "provider") =>
                req[p].input = Turns(req[p].sess)
                                \o <<[role |-> "user", content |-> req[p].msg]>>

\* the stages of a request after its provider call
AfterProvider == {"add_assistant", "adding_assistant", "count"}

\* C23: in stateless mode the provider is handed the request's own message
\* and nothing else, whatever the session's transcript holds: both for a
\* request still in progress after its provider call and for a response sent
\* after one.
C23_StatelessInput ==
    /\ \A p \in Procs :
            (req[p].mode = "stateless" /\ req[p].stage \in AfterProvider) =>
                req[p].input = <<[role |-> "user", content |-> req[p].msg]>>
    /\ (resp.kind = "chat" /\ resp.mode = "stateless"
            /\ (resp.reply # 0 \/ resp.cause = "provider")) =>
                resp.input = <<[role |-> "user", content |-> resp.msg]>>

\* a stateless request on a session that already holds the two turns of an
\* earlier request got its reply
C23_Witness ==
    /\ resp.kind = "chat"
    /\ resp.mode = "stateless"
    /\ resp.status = 200
    /\ Len(Stored(resp.sess)) >= 4
    /\ resp.input = <<[role |-> "user", content |-> resp.msg]>>

\* C24: in stateful mode, with no other request on the session, the provider
\* is handed every message appended to the session so far, in append order,
\* the request's own user message being the last one, however long the
\* transcript is.
C24_StatefulInput ==
    \A p \in Procs :
        (req[p].mode = "stateful" /\ req[p].stage = "provider") =>
            /\ req[p].input = appended[req[p].sess]
            /\ req[p].input # <<>>
            /\ req[p].input[Len(req[p].input)] =
                    [role |-> "user", content |-> req[p].msg]

\* the user turn, and the assistant turn, of the request r
UserTurn(r) == [role |-> "user", content |-> r.msg]
AssistantTurn(r) == [role |-> "assistant", content |-> r.reply]

\* C25: within a /chat request that uses memory the user turn is stored
\* before the provider is called; until the provider has answered the request
\* has no reply and no assistant turn newer than its message is stored; the
\* message count is read only with the assistant turn stored; and the
\* assistant turn stored is the reply the 200 response carries.
C25_StepOrder ==
    /\ \A p \in Procs :
            (req[p].kind = "chat" /\ UsesMemory(req[p].mode)) =>
                LET r == req[p]
                    t == Range(Stored(r.sess))
                IN  /\ r.stage \in {"history", "provider"} \cup AfterProvider =>
                            UserTurn(r) \in t
                    /\ r.stage \notin AfterProvider =>
                            /\ r.reply = 0
                            /\ \A m \in t : m.role = "assistant" => m.content < r.msg
                    /\ r.stage \in AfterProvider => r.reply > r.msg
                    /\ r.stage = "add_assistant" => AssistantTurn(r) \notin t
                    /\ r.stage = "count" => AssistantTurn(r) \in t
    /\ (resp.kind = "chat" /\ resp.status = 200 /\ resp.count # {}) =>
            /\ UserTurn(resp) \in Range(Stored(resp.sess))
            /\ AssistantTurn(resp) \in Range(Stored(resp.sess))

\* a request that uses memory was answered with its reply and a count
C25_Witness ==
    /\ resp.kind = "chat"
    /\ resp.status = 200
    /\ resp.count # {}
    /\ resp.reply # 0
    /\ AssistantTurn(resp) \in Range(Stored(resp.sess))

\* C26: the message_count of a successful /chat request that uses memory is
\* the number of messages stored for the session once the assistant turn is
\* appended; with sequential successful requests on a fresh session the k-th
\* response reports 2k.
C26_CountReported ==
    (resp.kind = "chat" /\ resp.status = 200 /\ resp.count # {}) =>
        /\ resp.count = {Len(Stored(resp.sess))}
        /\ resp.count = {2 * Len(log)}

\* C27: for every limit N >= 0, get_messages(s, limit=N) returns the last
\* min(N, n) of the n messages of s; for N = 0 that is the empty sequence.
C27_LimitEdge ==
    (ret.op = "get_messages" /\ ~ret.error /\ ret.limit # {}) =>
        LET N == CHOOSE n \in ret.limit : TRUE
            app == appended[ret.sess]
        IN  /\ Len(ret.msgs) = (IF N < Len(app) THEN N ELSE Len(app))
            /\ ret.msgs = LastN(app, N)

\* what a read call leaves in ret, whether the tier answered or failed
ReadOps == {"get_messages", "get_message_count", "session_exists",
            "get_messages_failed", "get_message_count_failed",
            "session_exists_failed"}

\* C28: a step of get_messages, get_message_count or session_exists leaves
\* the stored transcript of every session, the expiry of every key and the
\* clock as they were: reading a session does not put off its expiry.
C28_ReadsPure ==
    [][ret'.op \in ReadOps =>
            /\ \A s \in Sessions :
                    /\ Stored(s)' = Stored(s)
                    /\ Expiries(s)' = Expiries(s)
            /\ UNCHANGED <<lists, hashes, now>>]_vars

\* a session appended to at time 0 is read at a later time and still expires
\* session_ttl after time 0
C28_Witness ==
    /\ ret.op = "get_messages"
    /\ ret.msgs # <<>>
    /\ now >= 1
    /\ lastPush[ret.sess] = {0}
    /\ Expiries(ret.sess) = {{session_ttl}}

\* C29: when the provider call of a /chat request that uses memory fails, the
\* request is answered with an error; unless the session expired meanwhile,
\* its transcript holds exactly one message of the request, the user turn, as
\* its last message, and every key of the session has an expiry, no earlier
\* than session_ttl after that append.
C29_NoRollback ==
    (/\ resp.kind = "chat"
     /\ resp.cause = "provider"
     /\ UsesMemory(resp.mode)
     /\ lastPush[resp.sess] # {}) =>
        LET t == Stored(resp.sess) IN
        /\ resp.status >= 400
        /\ resp.reply = 0
        /\ t # <<>>
        /\ t[Len(t)] = UserTurn(resp)
        /\ Cardinality({i \in 1..Len(t) : t[i].content >= resp.msg}) = 1
        /\ \A e \in Expiries(resp.sess) :
                /\ e # {}
                /\ \A x \in e : \A u \in lastPush[resp.sess] : x >= u + session_ttl

\* the places of message m in the sequence t
Places(t, m) == {i \in 1..Len(t) : t[i] = m}

\* C30: with requests on one session running concurrently and succeeding (no
\* clear, no expiry), the stored transcript holds the user turn and the
\* assistant turn of every request answered so far exactly once each, the
\* user turn before the assistant turn, under every interleaving.
C30_ConcurrentTurns ==
    \A i \in 1..Len(log) :
        LET e == log[i]
            t == Stored(e.sess)
        IN  e.count # {} =>
                /\ Cardinality(Places(t, UserTurn(e))) = 1
                /\ Cardinality(Places(t, AssistantTurn(e))) = 1
                /\ \A u \in Places(t, UserTurn(e)) :
                   \A a \in Places(t, AssistantTurn(e)) : u < a

\* two requests that ran at the same time were both answered: the second
\* arrived before the provider of the first had answered, and the user turn
\* of the second is stored before the assistant turn of the first
C30_Witness ==
    /\ Len(log) = 2
    /\ log[1].sess = log[2].sess
    /\ log[1].count # {} /\ log[2].count # {}
    /\ \E i, j \in 1..2 :
            /\ log[i].msg < log[j].msg
            /\ log[j].msg < log[i].reply
            /\ \A u \in Places(Stored(log[j].sess), UserTurn(log[j])) :
               \A a \in Places(Stored(log[i].sess), AssistantTurn(log[i])) : u < a
    /\ Len(Stored(log[1].sess)) = 4

----------------------------------------------------------------------------
(* Claims about transcripts made by requests, races and the two variants *)

\* t alternates user, assistant, user, ... from a user turn on (a trailing
\* user turn without reply included)
Alternates(t) ==
    \A i \in 1..Len(t) : t[i].role = (IF i % 2 = 1 THEN "user" ELSE "assistant")

\* every assistant turn of t comes right after a user turn
RepliesFollowUser(t) ==
    \A i \in 1..Len(t) :
        t[i].role = "assistant" => (i > 1 /\ t[i - 1].role = "user")

\* C31 as stated: in every state reached through /chat and /clear-session
\* requests the stored transcript of each session is empty or alternates
\* user, assistant, user, ... starting with a user turn.
C31_RoleAlternation ==
    \A s \in Sessions : Alternates(Stored(s))

\* C31 amended: with sequential requests, succeeding or failing, every stored
\* assistant turn comes right after a user turn, so a transcript never starts
\* with an assistant turn and never holds two assistant turns in a row; user
\* turns of failed requests may stand in a row.
C31_RepliesFollowUser ==
    \A s \in Sessions : RepliesFollowUser(Stored(s))

\* a request was answered after an earlier request had failed behind its user
\* append: two user turns in a row, then the reply
C31_Witness ==
    \E s \in Sessions :
        LET t == Stored(s) IN
        /\ Len(t) >= 3
        /\ t[1].role = "user"
        /\ t[2].role = "user"
        /\ t[3].role = "assistant"
        /\ resp.kind = "chat"
        /\ resp.sess = s

\* the clear and the add_message that met it have both returned
RaceOver ==
    /\ resp.kind = "clear"
    /\ resp.status = 200
    /\ nextId > MaxRaceIds
    /\ \A p \in Procs : pc[p] = "idle"

\* C32: once a clear_session and the add_message racing it on the same
\* session have both returned, the session's transcript is empty or holds
\* the newly appended message alone, and then every key of the session
\* carries an expiry.
C32_ClearRacesAdd ==
    RaceOver =>
        LET t == Stored(resp.sess) IN
        /\ Len(t) <= 1
        /\ \A i \in 1..Len(t) : t[i].content = MaxRaceIds
        /\ \A e \in Expiries(resp.sess) : e # {}

\* client p has a stateless request in progress in src/backend while the
\* memory service is not initialized
Degraded(p) ==
    /\ impl = "redisvl"
    /\ ~services.memory
    /\ req[p].kind = "chat"
    /\ req[p].mode = "stateless"

\* C33: without a memory service a stateless /chat request of src/backend
\* whose provider service is there goes straight to the provider; no step of
\* it touches the store or starts a store call, and when the provider
\* answers, the response is a 200 with that reply, no message count, and the
\* session id of the request.
C33_StatelessWithoutStore ==
    [][\A p \in Procs :
          Degraded(p) =>
            /\ req[p].stage = "provider"
            /\ req'[p] # req[p] =>
                    /\ UNCHANGED <<lists, hashes, appended, lastPush, pc, local, ret>>
                    /\ nextId' # nextId =>
                            /\ resp'.kind = "chat"
                            /\ resp'.status = 200
                            /\ resp'.reply = nextId
                            /\ resp'.count = {}
                            /\ resp'.sess = req[p].sess
                            /\ resp'.msg = req[p].msg]_vars

\* a stateless request was answered with a reply and no count while the
\* memory service is missing
C33_Witness ==
    /\ impl = "redisvl"
    /\ ~services.memory
    /\ services.stateless
    /\ resp.kind = "chat"
    /\ resp.mode = "stateless"
    /\ resp.status = 200
    /\ resp.reply # 0
    /\ resp.count = {}
    /\ hashes = {}

\* C34: run side by side on the same calls and the same passage of time, the
\* two MemoryService implementations answer every read alike: get_messages
\* with every limit and without one, get_message_count and session_exists,
\* for every session, in every state.
C34_Equivalent ==
    \A s \in StoreSessions :
        /\ \A l \in Limits : get_messages_redisvl(s, l) = get_messages_list(s, l)
        /\ get_message_count_redisvl(s) = get_message_count_list(s)
        /\ session_exists_redisvl(s) = session_exists_list(s)

====
